---- MODULE Spec2Model ----
(***************************************************************************)
(* Model of the OpenSCAD render service (src/program.py) and of the batch  *)
(* renderer (src/solid_renderer.py).                                       *)
(*                                                                         *)
(* The temporary directory and the ./data tree are shared files; each      *)
(* render_scad_script call is a process whose steps are the file-system    *)
(* and subprocess operations of the function, in source order.  Failures   *)
(* of the operating system and the outcomes of the external tool are       *)
(* nondeterministic inputs of the steps.                                   *)
(***************************************************************************)
EXTENDS Integers, Sequences, FiniteSets, TLC

(* ------------------------------ bounds --------------------------------- *)

\* total number of render_scad_script calls made in one behaviour
MaxCalls == 2

\* total number of render_to_images calls made in one behaviour
MaxBatchCalls == 2

\* request handlers that may run at the same time
Req == {"r1", "r2"}

\* the client of the sequential specification
SeqReq == {"r1"}

Scripts == {"cube(1);", "sphere(2);"}

\* base names passed as `filename`; "current" is the default (line 66)
Filenames == {"current"}

\* view arguments of the concurrent specification
ConcViews == {"top", "3d"}

(* --------------------------- program constants -------------------------- *)

\* insertion order of the view dictionaries (program.py 102-107, solid_renderer.py 87-92)
ViewOrder == <<"top", "front", "left", "3d">>

ValidViews == {ViewOrder[i] : i \in 1..Len(ViewOrder)}

\* view arguments a caller may pass: the four keys and one unknown value
Views == ValidViews \cup {"side"}

camera_settings ==
    ("top"   :> <<"0,0,100,0,0,0", "ortho">>) @@
    ("front" :> <<"0,-100,0,0,0,0", "ortho">>) @@
    ("left"  :> <<"-100,0,0,0,0,0", "ortho">>) @@
    ("3d"    :> <<"70,70,50,0,0,0", "perspective">>)

NoCam == <<"-", "-">>

(* ------------------------------ file contents --------------------------- *)

NoFile == [kind |-> "none", data |-> "-", cam |-> NoCam]

Text(s) == [kind |-> "text", data |-> s, cam |-> NoCam]

\* what a failed write or copy leaves behind
Partial == [kind |-> "partial", data |-> "<partial>", cam |-> NoCam]

\* the raster the tool writes for script text s under camera c
Img(s, c) == [kind |-> "img", data |-> s, cam |-> c]

\* an output file that does not decode as an image
Garbage == [kind |-> "garbage", data |-> "-", cam |-> NoCam]

(* ------------------------------ exceptions ------------------------------ *)

NoExc == [kind |-> "none", detail |-> "-"]

Exc(k, d) == [kind |-> k, detail |-> d]

\* line 131: the tool exited non-zero; its stderr text is carried in the message
ToolFailed == Exc("RuntimeError", "OpenSCAD rendering failed: <stderr>")

\* line 135: the tool exited zero and the output path does not exist
NoOutput == Exc("RuntimeError", "OpenSCAD rendering succeeded but no output file was created")

NoResult == [status |-> "none", text |-> "-", exc |-> NoExc, image |-> NoFile]

VARIABLES
    tmp_scad,     \* temp_dir/<filename>.scad, by filename
    tmp_png,      \* temp_dir/<filename>.png, by filename
    perm_scad,    \* ./data/scad/<filename>.scad, by filename
    perm_png,     \* ./data/render/<filename>_<view>.png, by <<filename, view>>
    pc,           \* position of each request handler
    arg,          \* arguments of the running call
    exc,          \* exception in flight through the finally block
    ret,          \* value of the pending return statement
    result,       \* what the caller received
    cause,        \* first exception raised in the call (history)
    spawned,      \* subprocess.run calls of the call (history)
    cmd,          \* camera and projection of the command line (history)
    toolIn,       \* script text the tool process read
    toolWrote,    \* file the call's tool process wrote (history)
    stages,       \* pipeline stages the call went through (history)
    permAtCall,   \* the ./data tree when the call started (history)
    calls,        \* render_scad_script calls made so far
    failedResults,\* what callers received from calls whose tool exited non-zero (history)
    bpc,          \* position of render_to_images
    bidx,         \* index in ViewOrder of the next view
    bsuccess,     \* local variable success
    btemp,        \* whether the NamedTemporaryFile of the running call exists
    binvoked,     \* views the tool was invoked for, in order (history)
    bcodes,       \* exit codes of the invocations (history)
    bret,         \* what render_to_images returned
    bout,         \* output_dir/<base_name>_<view>.png written, by view
    bcalls        \* render_to_images calls made so far

rvars == <<tmp_scad, tmp_png, perm_scad, perm_png, pc, arg, exc, ret, result,
           cause, spawned, cmd, toolIn, toolWrote, stages, permAtCall, calls,
           failedResults>>

bvars == <<bpc, bidx, bsuccess, btemp, binvoked, bcodes, bret, bout, bcalls>>

vars == <<rvars, bvars>>

NoArg == [scad_code |-> "-", filename |-> "-", view |-> "-"]

Init ==
    /\ tmp_scad = [f \in Filenames |-> NoFile]
    /\ tmp_png = [f \in Filenames |-> NoFile]
    /\ perm_scad = [f \in Filenames |-> NoFile]
    /\ perm_png = [p \in Filenames \X ValidViews |-> NoFile]
    /\ pc = [r \in Req |-> "idle"]
    /\ arg = [r \in Req |-> NoArg]
    /\ exc = [r \in Req |-> NoExc]
    /\ ret = [r \in Req |-> NoFile]
    /\ result = [r \in Req |-> NoResult]
    /\ cause = [r \in Req |-> NoExc]
    /\ spawned = [r \in Req |-> 0]
    /\ cmd = [r \in Req |-> NoCam]
    /\ toolIn = [r \in Req |-> "-"]
    /\ toolWrote = [r \in Req |-> NoFile]
    /\ stages = [r \in Req |-> <<>>]
    /\ permAtCall = [r \in Req |-> <<perm_scad, perm_png>>]
    /\ calls = 0
    /\ failedResults = {}
    /\ bpc = "idle"
    /\ bidx = 1
    /\ bsuccess = TRUE
    /\ btemp = FALSE
    /\ binvoked = <<>>
    /\ bcodes = <<>>
    /\ bret = "none"
    /\ bout = [v \in ValidViews |-> FALSE]
    /\ bcalls = 0

(* ------------------- render_scad_script (src/program.py) ---------------- *)

Fn(r) == arg[r].filename

\* the stages of the call once it has entered `stage`
Entered(r, stage) == Append(stages[r], stage)

\* the except clauses of lines 155-159: what the caller receives for exception e
Handler(e) ==
    IF e.kind = "TimeoutExpired"
    THEN [status |-> "raised", text |-> "OpenSCAD rendering timed out (30 seconds)",
          exc |-> e, image |-> NoFile]
    ELSE [status |-> "raised",
          text |-> "Exception occurred while rendering OpenSCAD script: ",
          exc |-> e, image |-> NoFile]

Returned(img) == [status |-> "returned", text |-> "-", exc |-> NoExc, image |-> img]

\* the call ends after the stages st: exception e reaches the except clauses, or the
\* value is returned
EndCall(r, e, st) ==
    /\ pc' = [pc EXCEPT ![r] = "done"]
    /\ result' = [result EXCEPT ![r] = IF e = NoExc THEN Returned(ret[r]) ELSE Handler(e)]
    /\ stages' = [stages EXCEPT ![r] = Append(st, IF e = NoExc THEN "Done" ELSE "Failed")]
    /\ exc' = [exc EXCEPT ![r] = e]
    /\ failedResults' = IF cause[r] = ToolFailed
                        THEN failedResults \cup {IF e = NoExc THEN Returned(ret[r])
                                                 ELSE Handler(e)}
                        ELSE failedResults

\* an exception raised in the inner try body after the stages st: control enters
\* the finally block
RaiseInTry(r, e, st) ==
    /\ pc' = [pc EXCEPT ![r] = "clean_scad"]
    /\ exc' = [exc EXCEPT ![r] = e]
    /\ cause' = [cause EXCEPT ![r] = e]
    /\ stages' = [stages EXCEPT ![r] = Append(st, "Cleanup")]

\* lines 66, 79-94: the call starts, the ./data directories are there or are made,
\* and the paths are derived from the arguments
Call(r, codes, names, views) ==
    /\ pc[r] \in {"idle", "done"}
    /\ calls < MaxCalls
    /\ calls' = calls + 1
    /\ \E c \in codes, f \in names, v \in views :
          arg' = [arg EXCEPT ![r] = [scad_code |-> c, filename |-> f, view |-> v]]
    /\ ret' = [ret EXCEPT ![r] = NoFile]
    /\ spawned' = [spawned EXCEPT ![r] = 0]
    /\ cmd' = [cmd EXCEPT ![r] = NoCam]
    /\ toolIn' = [toolIn EXCEPT ![r] = "-"]
    /\ toolWrote' = [toolWrote EXCEPT ![r] = NoFile]
    /\ permAtCall' = [permAtCall EXCEPT ![r] = <<perm_scad, perm_png>>]
    /\ pc' = [pc EXCEPT ![r] = "stage"]
    /\ result' = [result EXCEPT ![r] = NoResult]
    /\ stages' = [stages EXCEPT ![r] = <<>>]
    /\ exc' = [exc EXCEPT ![r] = NoExc]
    /\ cause' = [cause EXCEPT ![r] = NoExc]
    /\ UNCHANGED <<tmp_scad, tmp_png, perm_scad, perm_png, failedResults, bvars>>

\* lines 96-98: the script is written to the temporary path, outside the inner try
Stage(r) ==
    /\ pc[r] = "stage"
    /\ \/ /\ tmp_scad' = [tmp_scad EXCEPT ![Fn(r)] = Text(arg[r].scad_code)]
          /\ pc' = [pc EXCEPT ![r] = "validate"]
          /\ stages' = [stages EXCEPT ![r] = Entered(r, "Staging")]
          /\ UNCHANGED <<exc, cause, result, failedResults>>
       \/ \* open() fails: nothing is written
          /\ UNCHANGED tmp_scad
          /\ cause' = [cause EXCEPT ![r] = Exc("OSError", "open")]
          /\ EndCall(r, Exc("OSError", "open"), Entered(r, "Staging"))
       \/ \* open() truncated or created the file, then write() or close() fails
          /\ tmp_scad' = [tmp_scad EXCEPT ![Fn(r)] = Partial]
          /\ cause' = [cause EXCEPT ![r] = Exc("OSError", "write")]
          /\ EndCall(r, Exc("OSError", "write"), Entered(r, "Staging"))
    /\ UNCHANGED <<tmp_png, perm_scad, perm_png, arg, ret, spawned, cmd, toolIn,
                   toolWrote, permAtCall, calls, bvars>>

\* line 109: membership in the camera table
ValidView(v) == v \in DOMAIN camera_settings

\* lines 101-112: the view is looked up in the camera table
Validate(r) ==
    /\ pc[r] = "validate"
    /\ IF ValidView(arg[r].view)
       THEN /\ pc' = [pc EXCEPT ![r] = "spawn"]
            /\ stages' = [stages EXCEPT ![r] = Entered(r, "Validating")]
            /\ UNCHANGED <<exc, cause>>
       ELSE RaiseInTry(r, Exc("ValueError", arg[r].view), Entered(r, "Validating"))
    /\ UNCHANGED <<tmp_scad, tmp_png, perm_scad, perm_png, arg, ret, result, spawned,
                   cmd, toolIn, toolWrote, permAtCall, calls, failedResults,
                   bvars>>

\* the script text the tool process finds at the path on its command line
ReadScript(f) == IF tmp_scad[f] = NoFile THEN "-" ELSE tmp_scad[f].data

\* lines 112-128: the command line is built and subprocess.run starts the tool
Spawn(r) ==
    /\ pc[r] = "spawn"
    /\ \/ /\ pc' = [pc EXCEPT ![r] = "running"]
          /\ spawned' = [spawned EXCEPT ![r] = @ + 1]
          /\ cmd' = [cmd EXCEPT ![r] = camera_settings[arg[r].view]]
          /\ toolIn' = [toolIn EXCEPT ![r] = ReadScript(Fn(r))]
          /\ stages' = [stages EXCEPT ![r] = Entered(r, "Invoking")]
          /\ UNCHANGED <<exc, cause>>
       \/ \* the executable cannot be started
          /\ RaiseInTry(r, Exc("OSError", "spawn"), Entered(r, "Invoking"))
          /\ UNCHANGED <<spawned, cmd, toolIn>>
    /\ UNCHANGED <<tmp_scad, tmp_png, perm_scad, perm_png, arg, ret, result,
                   toolWrote, permAtCall, calls, failedResults,
                   bvars>>

\* line 130: a non-zero return code is a failure
ExitFailed(code) == code # 0

\* ToolExited with the script archived as soon as the tool has exited, before the
\* return code is looked at
ToolExitedArchivesFirst(r, code, out) ==
    /\ tmp_png' = IF out = NoFile THEN tmp_png ELSE [tmp_png EXCEPT ![Fn(r)] = out]
    /\ toolWrote' = [toolWrote EXCEPT ![r] = out]
    /\ perm_scad' = [perm_scad EXCEPT ![Fn(r)] = tmp_scad[Fn(r)]]
    /\ UNCHANGED perm_png
    /\ IF ExitFailed(code)
       THEN RaiseInTry(r, ToolFailed, stages[r])
       ELSE /\ pc' = [pc EXCEPT ![r] = "check"]
            /\ UNCHANGED <<exc, cause, stages>>

\* the tool process finishes with return code `code` having written `out`
\* (NoFile: it wrote nothing); lines 128-131
ToolExited(r, code, out) ==
    /\ tmp_png' = IF out = NoFile THEN tmp_png ELSE [tmp_png EXCEPT ![Fn(r)] = out]
    /\ toolWrote' = [toolWrote EXCEPT ![r] = out]
    /\ UNCHANGED <<perm_scad, perm_png>>
    /\ IF ExitFailed(code)
       THEN RaiseInTry(r, ToolFailed, stages[r])
       ELSE /\ pc' = [pc EXCEPT ![r] = "check"]
            /\ UNCHANGED <<exc, cause, stages>>

\* line 128: subprocess.run returns or raises TimeoutExpired after 30 seconds
ToolExit(r) ==
    /\ pc[r] = "running"
    /\ \/ \* the timeout expires and the tool is killed, with or without a torn output
          /\ \E out \in {NoFile, Garbage} :
                /\ tmp_png' = IF out = NoFile THEN tmp_png
                              ELSE [tmp_png EXCEPT ![Fn(r)] = out]
                /\ toolWrote' = [toolWrote EXCEPT ![r] = out]
          /\ RaiseInTry(r, Exc("TimeoutExpired", "30"), stages[r])
          /\ UNCHANGED <<perm_scad, perm_png>>
       \/ \* a non-zero return code, with or without a torn output
          \E out \in {NoFile, Garbage} : ToolExited(r, 1, out)
       \/ /\ toolIn[r] # "-"
          /\ \E out \in {Img(toolIn[r], cmd[r]), Garbage, NoFile} : ToolExited(r, 0, out)
    /\ UNCHANGED <<tmp_scad, arg, ret, result, spawned, cmd,
                   toolIn, permAtCall, calls, failedResults,
                   bvars>>

\* line 134: os.path.exists(temp_png_path)
OutputExists(r) == tmp_png[Fn(r)] # NoFile

\* lines 133-135: the output file must exist
CheckOutput(r) ==
    /\ pc[r] = "check"
    /\ IF OutputExists(r)
       THEN /\ pc' = [pc EXCEPT ![r] = "copy_scad"]
            /\ UNCHANGED <<exc, cause, stages>>
       ELSE RaiseInTry(r, NoOutput, stages[r])
    /\ UNCHANGED <<tmp_scad, tmp_png, perm_scad, perm_png, arg, ret, result, spawned,
                   cmd, toolIn, toolWrote, permAtCall, calls, failedResults,
                   bvars>>

\* line 138: shutil.copy2(temp_scad_path, permanent_scad_path)
ArchiveScad(r) ==
    /\ pc[r] = "copy_scad"
    /\ IF tmp_scad[Fn(r)] = NoFile
       THEN /\ RaiseInTry(r, Exc("FileNotFoundError", "copy"), Entered(r, "Archiving"))
            /\ UNCHANGED perm_scad
       ELSE \/ /\ perm_scad' = [perm_scad EXCEPT ![Fn(r)] = tmp_scad[Fn(r)]]
               /\ pc' = [pc EXCEPT ![r] = "copy_png"]
               /\ stages' = [stages EXCEPT ![r] = Entered(r, "Archiving")]
               /\ UNCHANGED <<exc, cause>>
            \/ \* the copy fails before or after the destination was opened
               /\ \E left \in {perm_scad[Fn(r)], Partial} :
                     perm_scad' = [perm_scad EXCEPT ![Fn(r)] = left]
               /\ RaiseInTry(r, Exc("OSError", "copy"), Entered(r, "Archiving"))
    /\ UNCHANGED <<tmp_scad, tmp_png, perm_png, arg, ret, result, spawned, cmd,
                   toolIn, toolWrote, permAtCall, calls, failedResults,
                   bvars>>

\* line 94: permanent_png_path
PngKey(r) == <<arg[r].filename, arg[r].view>>

\* line 139: shutil.copy2(temp_png_path, permanent_png_path)
ArchivePng(r) ==
    /\ pc[r] = "copy_png"
    /\ IF tmp_png[Fn(r)] = NoFile
       THEN /\ RaiseInTry(r, Exc("FileNotFoundError", "copy"), stages[r])
            /\ UNCHANGED perm_png
       ELSE \/ /\ perm_png' = [perm_png EXCEPT ![PngKey(r)] = tmp_png[Fn(r)]]
               /\ pc' = [pc EXCEPT ![r] = "load"]
               /\ UNCHANGED <<exc, cause, stages>>
            \/ /\ \E left \in {perm_png[PngKey(r)], Partial} :
                     perm_png' = [perm_png EXCEPT ![PngKey(r)] = left]
               /\ RaiseInTry(r, Exc("OSError", "copy"), stages[r])
    /\ UNCHANGED <<tmp_scad, tmp_png, perm_scad, arg, ret, result, spawned, cmd,
                   toolIn, toolWrote, permAtCall, calls, failedResults,
                   bvars>>

\* lines 143-146: the output file is opened, encoded and becomes the return value
Load(r) ==
    /\ pc[r] = "load"
    /\ IF tmp_png[Fn(r)] = NoFile
       THEN /\ RaiseInTry(r, Exc("FileNotFoundError", "open"), Entered(r, "Loading"))
            /\ UNCHANGED ret
       ELSE IF tmp_png[Fn(r)].kind # "img"
       THEN /\ RaiseInTry(r, Exc("UnidentifiedImageError", "decode"), Entered(r, "Loading"))
            /\ UNCHANGED ret
       ELSE /\ ret' = [ret EXCEPT ![r] = tmp_png[Fn(r)]]
            /\ pc' = [pc EXCEPT ![r] = "clean_scad"]
            /\ stages' = [stages EXCEPT ![r] = Append(Entered(r, "Loading"), "Cleanup")]
            /\ UNCHANGED <<exc, cause>>
    /\ UNCHANGED <<tmp_scad, tmp_png, perm_scad, perm_png, arg, result, spawned, cmd,
                   toolIn, toolWrote, permAtCall, calls, failedResults,
                   bvars>>

\* line 150: os.path.exists(temp_scad_path)
CleanScad(r) ==
    /\ pc[r] = "clean_scad"
    /\ pc' = [pc EXCEPT ![r] = IF tmp_scad[Fn(r)] # NoFile THEN "rm_scad" ELSE "clean_png"]
    /\ UNCHANGED <<tmp_scad, tmp_png, perm_scad, perm_png, arg, exc, ret, result, cause,
                   spawned, cmd, toolIn, toolWrote, stages, permAtCall, calls, failedResults,
                   bvars>>

\* line 151: os.remove(temp_scad_path); an exception leaves the finally block at once
RemoveScad(r) ==
    /\ pc[r] = "rm_scad"
    /\ IF tmp_scad[Fn(r)] = NoFile
       THEN /\ EndCall(r, Exc("FileNotFoundError", "remove"), stages[r])
            /\ UNCHANGED tmp_scad
       ELSE \/ /\ tmp_scad' = [tmp_scad EXCEPT ![Fn(r)] = NoFile]
               /\ pc' = [pc EXCEPT ![r] = "clean_png"]
               /\ UNCHANGED <<exc, result, stages, failedResults>>
            \/ /\ EndCall(r, Exc("OSError", "remove"), stages[r])
               /\ UNCHANGED tmp_scad
    /\ UNCHANGED <<tmp_png, perm_scad, perm_png, arg, ret, cause, spawned, cmd,
                   toolIn, toolWrote, permAtCall, calls, bvars>>

\* line 152: os.path.exists(temp_png_path); the finally block ends when it is false
CleanPng(r) ==
    /\ pc[r] = "clean_png"
    /\ IF tmp_png[Fn(r)] # NoFile
       THEN /\ pc' = [pc EXCEPT ![r] = "rm_png"]
            /\ UNCHANGED <<exc, result, stages, failedResults>>
       ELSE EndCall(r, exc[r], stages[r])
    /\ UNCHANGED <<tmp_scad, tmp_png, perm_scad, perm_png, arg, ret, cause, spawned,
                   cmd, toolIn, toolWrote, permAtCall, calls, bvars>>

\* line 153: os.remove(temp_png_path), then the pending return or exception resumes
RemovePng(r) ==
    /\ pc[r] = "rm_png"
    /\ IF tmp_png[Fn(r)] = NoFile
       THEN /\ EndCall(r, Exc("FileNotFoundError", "remove"), stages[r])
            /\ UNCHANGED tmp_png
       ELSE \/ /\ tmp_png' = [tmp_png EXCEPT ![Fn(r)] = NoFile]
               /\ EndCall(r, exc[r], stages[r])
            \/ /\ EndCall(r, Exc("OSError", "remove"), stages[r])
               /\ UNCHANGED tmp_png
    /\ UNCHANGED <<tmp_scad, perm_scad, perm_png, arg, ret, cause, spawned, cmd,
                   toolIn, toolWrote, permAtCall, calls, bvars>>

\* one step of a running call
Step(r) ==
    \/ Stage(r)
    \/ Validate(r)
    \/ Spawn(r)
    \/ ToolExit(r)
    \/ CheckOutput(r)
    \/ ArchiveScad(r)
    \/ ArchivePng(r)
    \/ Load(r)
    \/ CleanScad(r)
    \/ RemoveScad(r)
    \/ CleanPng(r)
    \/ RemovePng(r)

\* one client calling the tool again and again
Next == \E r \in SeqReq : Call(r, Scripts, Filenames, Views) \/ Step(r)

Spec == Init /\ [][Next]_vars

\* request handlers running at the same time
ConcNext == \E r \in Req : Call(r, Scripts, Filenames, ConcViews) \/ Step(r)

SpecConc == Init /\ [][ConcNext]_vars

(* --------- SolidRenderer.render_to_images (src/solid_renderer.py) ------- *)

\* return codes of the external tool
ExitCodes == {0, 1}

\* NextIdx with the loop left at the first failed view
NextIdxStopsOnFailure(i, code) == IF code # 0 THEN Len(ViewOrder) + 1 ELSE i + 1

\* lines 95, 109-113: the loop goes on to the next view whatever the return code
NextIdx(i, code) == i + 1

\* lines 94, 109-111: success stays true while every return code is zero
Accumulate(s, code) == IF code # 0 THEN FALSE ELSE s

\* lines 74-77: the call starts and the output directory is made
BatchCall ==
    /\ bpc \in {"idle", "returned", "raised"}
    /\ bcalls < MaxBatchCalls
    /\ bcalls' = bcalls + 1
    /\ bidx' = 1
    /\ bsuccess' = TRUE
    /\ binvoked' = <<>>
    /\ bcodes' = <<>>
    /\ bret' = "none"
    /\ btemp' = FALSE
    /\ \/ bpc' = "stage"
       \/ \* mkdir raises: nothing was created
          bpc' = "raised"
    /\ UNCHANGED <<bout, rvars>>

\* lines 79-83: a fresh temporary file is created and the generated script written
BatchStage ==
    /\ bpc = "stage"
    /\ \/ bpc' = "loop" /\ btemp' = TRUE
       \/ \* scad_render or write raises outside the try block: the file stays
          bpc' = "raised" /\ btemp' = TRUE
       \/ \* the temporary file cannot be created
          bpc' = "raised" /\ btemp' = FALSE
    /\ UNCHANGED <<bidx, bsuccess, binvoked, bcodes, bret, bout, bcalls, rvars>>

\* lines 95-113: one iteration of the loop over the views
BatchInvoke ==
    /\ bpc = "loop"
    /\ bidx <= Len(ViewOrder)
    /\ \/ \E code \in ExitCodes :
             /\ binvoked' = Append(binvoked, ViewOrder[bidx])
             /\ bcodes' = Append(bcodes, code)
             /\ bsuccess' = Accumulate(bsuccess, code)
             /\ bout' = IF code = 0 THEN [bout EXCEPT ![ViewOrder[bidx]] = TRUE] ELSE bout
             /\ bidx' = NextIdx(bidx, code)
             /\ UNCHANGED <<bpc, bret>>
       \/ \* subprocess.run raises (the executable cannot be started)
          /\ bpc' = "unlink"
          /\ bret' = "raising"
          /\ UNCHANGED <<binvoked, bcodes, bsuccess, bout, bidx>>
    /\ UNCHANGED <<btemp, bcalls, rvars>>

\* line 115: return success, which enters the finally block
BatchReturn ==
    /\ bpc = "loop"
    /\ bidx > Len(ViewOrder)
    /\ bpc' = "unlink"
    /\ bret' = IF bsuccess THEN "true" ELSE "false"
    /\ UNCHANGED <<bidx, bsuccess, btemp, binvoked, bcodes, bout, bcalls, rvars>>

\* lines 116-117: os.unlink(temp_scad_file), then the return or exception resumes
BatchUnlink ==
    /\ bpc = "unlink"
    /\ \/ /\ btemp' = FALSE
          /\ bpc' = IF bret = "raising" THEN "raised" ELSE "returned"
          /\ bret' = IF bret = "raising" THEN "none" ELSE bret
       \/ \* os.unlink raises
          /\ bpc' = "raised"
          /\ bret' = "none"
          /\ UNCHANGED btemp
    /\ UNCHANGED <<bidx, bsuccess, binvoked, bcodes, bout, bcalls, rvars>>

BatchNext ==
    \/ BatchCall
    \/ BatchStage
    \/ BatchInvoke
    \/ BatchReturn
    \/ BatchUnlink

SpecBatch == Init /\ [][BatchNext]_vars

(* ------------------------------- properties ---------------------------- *)

Done(r) == pc[r] = "done"

NoTempLeft(r) == tmp_scad[Fn(r)] = NoFile /\ tmp_png[Fn(r)] = NoFile

\* C1: on every exit path of render_scad_script, the temporary script file and the
\* temporary output file of the call no longer exist when the call returns or raises.
C1_TempFilesRemoved == \A r \in Req : Done(r) => NoTempLeft(r)

\* the camera string and projection mode the specification fixes for each view
FixedPair(v) ==
    CASE v = "top" -> <<"0,0,100,0,0,0", "ortho">>
      [] v = "front" -> <<"0,-100,0,0,0,0", "ortho">>
      [] v = "left" -> <<"-100,0,0,0,0,0", "ortho">>
      [] v = "3d" -> <<"70,70,50,0,0,0", "perspective">>
      [] OTHER -> NoCam

\* C2: a view outside {top, front, left, 3d} makes the call fail with the
\* invalid-view error naming the value, and no tool process is spawned for it; for
\* each of the four keys the command line carries the same fixed camera and projection.
C2_InvalidViewRejected ==
    \A r \in Req :
       /\ (arg[r].view \notin {"top", "front", "left", "3d"} => spawned[r] = 0)
       /\ (Done(r) /\ arg[r].view \notin {"top", "front", "left", "3d"}
             => /\ result[r].status = "raised"
                /\ result[r].exc = Exc("ValueError", arg[r].view))
       /\ (spawned[r] > 0 => cmd[r] = FixedPair(arg[r].view))

\* C3: a call whose tool invocation exceeds the timeout ends in the timed-out error
\* and leaves neither temporary file behind.
C3_TimeoutYieldsTimeout ==
    \A r \in Req :
       Done(r) /\ cause[r].kind = "TimeoutExpired"
          => /\ result[r].status = "raised"
             /\ result[r].text = "OpenSCAD rendering timed out (30 seconds)"
             /\ NoTempLeft(r)

\* C4: a call whose tool exited zero without the output path existing fails, with an
\* error no call whose tool exited non-zero receives, and archives and returns nothing.
C4_MissingOutputDistinct ==
    \A r \in Req :
       Done(r) /\ cause[r] = NoOutput
          => /\ result[r].status = "raised"
             /\ result[r].image = NoFile
             /\ result[r] \notin failedResults
             /\ <<perm_scad, perm_png>> = permAtCall[r]

\* C5: after a successful call with base name B and view V, ./data/scad/B.scad holds
\* the script text of the call, ./data/render/B_V.png holds the image written by the
\* call's own tool invocation, and neither temporary file remains.
C5_SuccessLeavesArtifacts ==
    \A r \in Req :
       Done(r) /\ result[r].status = "returned"
          => /\ perm_scad[Fn(r)] = Text(arg[r].scad_code)
             /\ toolWrote[r].kind = "img"
             /\ perm_png[PngKey(r)] = toolWrote[r]
             /\ NoTempLeft(r)

\* C6: a failure while deleting a temporary file is never propagated: the caller
\* receives the primary error when an earlier step failed, and the image otherwise.
C6_CleanupNeverMasks ==
    \A r \in Req :
       Done(r) =>
          IF cause[r] # NoExc
          THEN result[r].status = "raised" /\ result[r].exc = cause[r]
          ELSE result[r].status = "returned" /\ result[r].image = ret[r]

Rank(stage) ==
    CASE stage = "Validating" -> 1
      [] stage = "Staging" -> 2
      [] stage = "Invoking" -> 3
      [] stage = "Loading" -> 4
      [] stage = "Archiving" -> 5
      [] stage = "Cleanup" -> 6
      [] OTHER -> 7

\* C7: a request goes through Validating, Staging, Invoking, Loading, Archiving in
\* that order only, and cleanup runs on entering Done or Failed.
C7_StageOrder ==
    \A r \in Req :
       /\ \A i, j \in 1..Len(stages[r]) : i < j => Rank(stages[r][i]) < Rank(stages[r][j])
       /\ \A i \in 1..Len(stages[r]) :
             stages[r][i] \in {"Done", "Failed"} => i > 1 /\ stages[r][i - 1] = "Cleanup"

\* the positions at which the call has staged its script and not yet deleted it
HoldsScript(r) ==
    pc[r] \in {"validate", "spawn", "running", "check", "copy_scad", "copy_png", "load",
               "clean_scad", "rm_scad"}

\* the positions between the exit of the call's tool and the deletion of its output
HoldsOutput(r) == pc[r] \in {"check", "copy_scad", "copy_png", "load"}

\* C8: in every interleaving each request exclusively owns its temporary files: they
\* hold what the request and its own tool wrote, and the image archived and returned
\* is the one its own tool invocation wrote for its own script and view.
C8_ExclusiveOwnership ==
    \A r \in Req :
       /\ HoldsScript(r) => tmp_scad[Fn(r)] = Text(arg[r].scad_code)
       /\ pc[r] = "running" => toolIn[r] = arg[r].scad_code
       /\ HoldsOutput(r) => tmp_png[Fn(r)] = toolWrote[r]
       /\ (Done(r) /\ result[r].status = "returned"
             => /\ result[r].image = Img(arg[r].scad_code, FixedPair(arg[r].view))
                /\ result[r].image = toolWrote[r])

\* the failures the frame condition of C9 is about
EarlyFailure(r) ==
    \/ cause[r].kind \in {"ValueError", "TimeoutExpired"}
    \/ cause[r] \in {ToolFailed, NoOutput}

\* C9: when a call fails because the view is invalid, the tool times out, exits
\* non-zero or exits zero without an output file, ./data/scad/<filename>.scad and
\* ./data/render/<filename>_<view>.png hold what they held before the call.
C9_FailureLeavesPermanent ==
    \A r \in Req :
       Done(r) /\ EarlyFailure(r)
          => /\ perm_scad[Fn(r)] = permAtCall[r][1][Fn(r)]
             /\ \A v \in ValidViews :
                   perm_png[<<Fn(r), v>>] = permAtCall[r][2][<<Fn(r), v>>]

\* a timed-out call after an earlier successful render of another script: the
\* earlier render is still the latest one
C9_Witness ==
    \E r \in Req :
       /\ Done(r)
       /\ cause[r].kind = "TimeoutExpired"
       /\ arg[r].view \in ValidViews
       /\ perm_png[PngKey(r)].kind = "img"
       /\ perm_scad[Fn(r)].kind = "text"
       /\ perm_scad[Fn(r)] # Text(arg[r].scad_code)

\* C10: render_to_images invokes the tool exactly once for each of top, front, left,
\* 3d, going on after a failed view, returns true exactly when all four return codes
\* were zero, and has deleted its temporary script when it returns.
C10_BatchRendersAllViews ==
    bpc = "returned"
       => /\ binvoked = <<"top", "front", "left", "3d">>
          /\ Len(bcodes) = 4
          /\ bret \in {"true", "false"}
          /\ (bret = "true") = (\A i \in 1..4 : bcodes[i] = 0)
          /\ ~btemp

\* a call whose first view failed and whose later views were still rendered
C10_Witness ==
    /\ bpc = "returned"
    /\ bret = "false"
    /\ Len(bcodes) = 4
    /\ bcodes[1] # 0
    /\ bcodes[4] = 0
    /\ bout["3d"]

====
